---------------------------- MODULE Spec2Model ----------------------------
(***************************************************************************)
(* Model of wallpaper.py: the directory scan, the ThumbnailLoader worker   *)
(* (a QRunnable on the global QThreadPool) and the WallpaperApp controller *)
(* (slots run on the UI thread, fed by Qt's queued signal delivery).       *)
(*                                                                         *)
(* Atomicity.  A worker step is one read of the shared flag _is_cancelled, *)
(* one decode, or one signal emission.  A controller slot is one step: the *)
(* UI thread runs a slot to completion, and inside a slot the only shared  *)
(* accesses are activeThreadCount(), the writes of _is_cancelled and the   *)
(* final QThreadPool.start.                                                *)
(*                                                                         *)
(* Left out: the status bar and the progress_message signal that feeds it  *)
(* (text that nothing in the program reads back), styling, set_wallpaper.  *)
(***************************************************************************)
EXTENDS Integers, Sequences, FiniteSets, TLC

VARIABLES
    corrupt,                    \* files on disk that QImage cannot decode
    current_directory,          \* WallpaperApp.current_directory ("" = none)
    image_files_paths,          \* WallpaperApp.image_files_paths
    images_added_to_grid_count, \* WallpaperApp.images_added_to_grid_count
    current_row_layout,         \* index into image_container_layout, 0 = None
    image_container_layout,     \* the widgets of the QVBoxLayout, top to bottom
    current_thumbnail_loader,   \* job id, 0 = None
    closed,                     \* closeEvent has run
    nScans,                     \* scans triggered so far (bounds the run)
    nJobs,                      \* ThumbnailLoader objects constructed so far
    image_paths,                \* per job: ThumbnailLoader.image_paths
    is_cancelled,               \* per job: ThumbnailLoader._is_cancelled
    successfully_loaded_count,  \* per job
    pc,                         \* per job: position of the worker in run()
    idx,                        \* per job: paths already iterated over
    pixmap,                     \* per job: result of the last decode
    maxThreadCount,             \* QThreadPool.maxThreadCount()
    poolQueue,                  \* runnables the pool has queued, not started
    eventQueue,                 \* queued signal emissions posted to the UI thread
    listdir_result,             \* history: outcome of the last os.listdir
    decoded,                    \* history, per job: every decode, with its result
                                \* and the flag as it stood when the decode began
    emitted,                    \* history: every emission, in emission order
    delivered                   \* history: every emission a slot has handled

vars == <<corrupt, current_directory, image_files_paths, images_added_to_grid_count,
          current_row_layout, image_container_layout, current_thumbnail_loader,
          closed, nScans, nJobs, image_paths, is_cancelled,
          successfully_loaded_count, pc, idx, pixmap, maxThreadCount, poolQueue, eventQueue,
          listdir_result, decoded, emitted, delivered>>

ctlVars == <<current_directory, image_files_paths, images_added_to_grid_count,
             current_row_layout, image_container_layout,
             current_thumbnail_loader, closed, nScans>>
poolVars == <<maxThreadCount, poolQueue>>

-----------------------------------------------------------------------------
\* Bounds of the model.
MaxJobs == 2        \* jobs the controller may start in one run
MaxScans == 3       \* directory scans the user may trigger in one run
LiveScans == 2      \* the same, in the runs explored under fairness
PoolThreads == 2    \* largest maxThreadCount (idealThreadCount) explored

\* Program constants.
IMAGES_PER_ROW == 4

Jobs == 1..MaxJobs
None == 0
NoDir == ""

-----------------------------------------------------------------------------
\* File names are sequences of characters, so that lower() and endswith()
\* are computed rather than assumed.
UpperAlpha == <<"A","B","C","D","E","F","G","H","I","J","K","L","M",
                "N","O","P","Q","R","S","T","U","V","W","X","Y","Z">>
LowerAlpha == <<"a","b","c","d","e","f","g","h","i","j","k","l","m",
                "n","o","p","q","r","s","t","u","v","w","x","y","z">>

LowerChar(c) ==
    IF \E i \in DOMAIN UpperAlpha : UpperAlpha[i] = c
    THEN LowerAlpha[CHOOSE i \in DOMAIN UpperAlpha : UpperAlpha[i] = c]
    ELSE c

\* str.lower()
Lower(s) == [i \in DOMAIN s |-> LowerChar(s[i])]

\* str.endswith(suffix)
EndsWith(s, suffix) ==
    /\ Len(s) >= Len(suffix)
    /\ SubSeq(s, Len(s) - Len(suffix) + 1, Len(s)) = suffix

VALID_IMAGE_EXTENSIONS ==
    << <<".","j","p","g">>, <<".","j","p","e","g">>,
       <<".","p","n","g">>, <<".","b","m","p">> >>

\* mutant: the name is compared without lower()
HasValidExtensionCaseSensitive(f) ==
    \E e \in DOMAIN VALID_IMAGE_EXTENSIONS :
        EndsWith(f, VALID_IMAGE_EXTENSIONS[e])

\* any(f.lower().endswith(ext) for ext in VALID_IMAGE_EXTENSIONS)
HasValidExtension(f) ==
    \E e \in DOMAIN VALID_IMAGE_EXTENSIONS :
        EndsWith(Lower(f), VALID_IMAGE_EXTENSIONS[e])

\* The file system the program runs against: per directory, its entries in
\* listing order.  isfile = FALSE is a subdirectory.
Entry(n, f) == [name |-> n, isfile |-> f]
Dirs == {"d1", "d2", "d3"}
FileSystem(d) ==
    CASE d = "d1" -> << Entry(<<"a",".","J","P","G">>, TRUE),
                        Entry(<<"s",".","p","n","g">>, FALSE),
                        Entry(<<"b",".","p","n","g">>, TRUE),
                        Entry(<<"n",".","t","x","t">>, TRUE) >>
      [] d = "d2" -> << Entry(<<"c",".","j","p","e","g">>, TRUE),
                        Entry(<<"j","p","g">>, TRUE),
                        Entry(<<"u",".","p","n","g",".","t","x","t">>, TRUE),
                        Entry(<<"e",".","B","m","p">>, TRUE) >>
      [] d = "d3" -> << Entry(<<"r",".","g","i","f">>, TRUE),
                        Entry(<<"t",".","j","p","g">>, FALSE),
                        Entry(<<"v",".","j","p","g","x">>, TRUE),
                        Entry(<<"b","m","p">>, TRUE) >>
      [] d = "d4" -> << Entry(<<"f",".","j","p","g">>, TRUE),
                        Entry(<<"g",".","p","n","g">>, TRUE),
                        Entry(<<"h",".","b","m","p">>, TRUE),
                        Entry(<<"i",".","J","p","g">>, TRUE) >>
      [] OTHER    -> << >>

\* os.listdir(d) when it succeeds: the names, in listing order.
ListDir(d) == [i \in DOMAIN FileSystem(d) |-> FileSystem(d)[i].name]

\* The outcomes of os.listdir(d): the listing, or OSError (no permission, or
\* the directory removed between selection and scan).
OsListDir(d) == { [ok |-> TRUE, files |-> ListDir(d)],
                  [ok |-> FALSE, files |-> << >>] }

\* os.path.join(d, f)
PathJoin(d, f) == [dir |-> d, name |-> f]

\* os.path.isfile(path)
IsFile(p) ==
    \E i \in DOMAIN FileSystem(p.dir) :
        FileSystem(p.dir)[i].name = p.name /\ FileSystem(p.dir)[i].isfile

\* QImage(path).isNull() is false: the file decodes.
Decodes(p) == p \notin corrupt

\* The filter of the list comprehension.
IsCandidate(d, f) == IsFile(PathJoin(d, f)) /\ HasValidExtension(f)

\* [os.path.join(d, f) for f in all_files if isfile(...) and any(...)]
RECURSIVE ScanFilter(_, _)
ScanFilter(d, all_files) ==
    IF all_files = << >> THEN << >>
    ELSE LET f == Head(all_files)
             rest == ScanFilter(d, Tail(all_files))
         IN  IF IsCandidate(d, f) THEN <<PathJoin(d, f)>> \o rest ELSE rest

-----------------------------------------------------------------------------
\* Widgets of image_container_layout.
Label(t) == [type |-> "label", text |-> t, cards |-> << >>, stretch |-> 0]
NewRow == [type |-> "row", text |-> "", cards |-> << >>, stretch |-> 0]

\* Signal emissions.  The job field is bookkeeping of the model: the slots
\* never ask which loader sent an event.
NoPath == [dir |-> NoDir, name |-> << >>]
Event(j, k, p, n) == [job |-> j, kind |-> k, path |-> p, count |-> n]

\* QThreadPool.activeThreadCount(): threads running a runnable.
Running(j) == pc[j] \notin {"none", "queued", "done"}
activeThreadCount == Cardinality({j \in Jobs : Running(j)})

\* ThumbnailLoader.cancel on the loader h (None: no call).
Cancel(flags, h) == IF h # None THEN [flags EXCEPT ![h] = TRUE] ELSE flags

\* Every path a scan of some directory can yield.
AllCandidates ==
    UNION { { ScanFilter(d, ListDir(d))[i] :
                i \in DOMAIN ScanFilter(d, ListDir(d)) } : d \in Dirs }

\* The corrupt files of the file system explored by Spec.
DefaultCorrupt == { PathJoin("d1", <<"b",".","p","n","g">>),
                    PathJoin("d2", <<"c",".","j","p","e","g">>) }

-----------------------------------------------------------------------------
\* The program after WallpaperApp.__init__, the files on disk apart.
InitProgram ==
    /\ current_directory = NoDir
    /\ image_files_paths = << >>
    /\ images_added_to_grid_count = 0
    /\ current_row_layout = None
    /\ image_container_layout = << Label("initial") >>
    /\ current_thumbnail_loader = None
    /\ closed = FALSE
    /\ nScans = 0
    /\ nJobs = 0
    /\ image_paths = [j \in Jobs |-> << >>]
    /\ is_cancelled = [j \in Jobs |-> FALSE]
    /\ successfully_loaded_count = [j \in Jobs |-> 0]
    /\ pc = [j \in Jobs |-> "none"]
    /\ idx = [j \in Jobs |-> 0]
    /\ pixmap = [j \in Jobs |-> "unset"]
    /\ maxThreadCount \in 1..PoolThreads
    /\ poolQueue = << >>
    /\ eventQueue = << >>
    /\ listdir_result = "none"
    /\ decoded = [j \in Jobs |-> << >>]
    /\ emitted = << >>
    /\ delivered = << >>

Init == corrupt = DefaultCorrupt /\ InitProgram

-----------------------------------------------------------------------------
\* The worker: ThumbnailLoader.run, one action per step.

\* A signal emitted on the worker thread to a slot of the window (which lives
\* on the UI thread) is a queued connection: the emission is posted at the
\* back of the UI thread's event queue.
\* mutant: the newest emission overtakes the queued ones
PostInFront(q, e) == <<e>> \o q

Post(q, e) == Append(q, e)

Emit(e) ==
    /\ eventQueue' = Post(eventQueue, e)
    /\ emitted' = Append(emitted, e)

\* mutant: the worker never sees the flag set
ReadStaleFlag(j) == FALSE

\* self._is_cancelled as run() reads it at lines 36, 43 and 52: the attribute
\* of the loader object, as the controller last wrote it.
ReadIsCancelled(j) == is_cancelled[j]

\* for i, image_path in enumerate(self.image_paths): if self._is_cancelled: break
LoopTarget(j) ==
    IF idx[j] >= Len(image_paths[j]) THEN "final"
    ELSE IF ReadIsCancelled(j) THEN "final"
    ELSE "load"

run_loop(j) ==
    /\ pc[j] = "loop"
    /\ pc' = [pc EXCEPT ![j] = LoopTarget(j)]
    /\ UNCHANGED <<corrupt, ctlVars, poolVars, nJobs, image_paths, is_cancelled,
                   successfully_loaded_count, idx, pixmap, eventQueue,
                   listdir_result, decoded, emitted, delivered>>

\* pixmap, error_msg = self._load_thumbnail_pixmap(image_path, size):
\* a pixmap, or None when QImage(path).isNull() or an exception is caught.
LoadThumbnailPixmap(p) == IF Decodes(p) THEN "ok" ELSE "null"

run_load(j) ==
    /\ pc[j] = "load"
    /\ LET r == LoadThumbnailPixmap(image_paths[j][idx[j] + 1])
       IN  /\ pixmap' = [pixmap EXCEPT ![j] = r]
           /\ decoded' = [decoded EXCEPT ![j] =
                            Append(@, [result |-> r,
                                       cancelled |-> is_cancelled[j]])]
    /\ pc' = [pc EXCEPT ![j] = "recheck"]
    /\ UNCHANGED <<corrupt, ctlVars, poolVars, nJobs, image_paths, is_cancelled,
                   successfully_loaded_count, idx, eventQueue, listdir_result, emitted,
                   delivered>>

\* if self._is_cancelled: break   (the check after the decode)
RecheckTarget(j) == IF ReadIsCancelled(j) THEN "final" ELSE "emit"

run_recheck(j) ==
    /\ pc[j] = "recheck"
    /\ pc' = [pc EXCEPT ![j] = RecheckTarget(j)]
    /\ UNCHANGED <<corrupt, ctlVars, poolVars, nJobs, image_paths, is_cancelled,
                   successfully_loaded_count, idx, pixmap, eventQueue,
                   listdir_result, decoded, emitted, delivered>>

\* if pixmap: finished_one.emit(path, pixmap); count += 1
\* else: error_loading_one.emit(path, msg)
ItemEvent(j) ==
    IF pixmap[j] = "ok"
    THEN Event(j, "finished_one", image_paths[j][idx[j] + 1], 0)
    ELSE Event(j, "error_loading_one", image_paths[j][idx[j] + 1], 0)

\* mutant: failures are counted as loaded
CountEveryItem(j) == successfully_loaded_count[j] + 1

CountAfterItem(j) ==
    IF pixmap[j] = "ok" THEN successfully_loaded_count[j] + 1
    ELSE successfully_loaded_count[j]

\* mutant: a failed decode ends the loop
AfterItemAbortOnFailure(j) ==
    IF pixmap[j] = "ok" THEN [next |-> "loop", idx |-> idx[j] + 1]
    ELSE [next |-> "final", idx |-> idx[j] + 1]

\* the position of the loop after an item has been handled
AfterItem(j) == [next |-> "loop", idx |-> idx[j] + 1]

run_emit(j) ==
    /\ pc[j] = "emit"
    /\ Emit(ItemEvent(j))
    /\ successfully_loaded_count' =
          [successfully_loaded_count EXCEPT ![j] = CountAfterItem(j)]
    /\ idx' = [idx EXCEPT ![j] = AfterItem(j).idx]
    /\ pc' = [pc EXCEPT ![j] = AfterItem(j).next]
    /\ UNCHANGED <<corrupt, ctlVars, poolVars, nJobs, image_paths, is_cancelled,
                   pixmap, listdir_result, decoded, delivered>>

\* if not self._is_cancelled: (emit finished_all)
FinalTarget(j) == IF ~ReadIsCancelled(j) THEN "emit_all" ELSE "exit"

run_final(j) ==
    /\ pc[j] = "final"
    /\ pc' = [pc EXCEPT ![j] = FinalTarget(j)]
    /\ UNCHANGED <<corrupt, ctlVars, poolVars, nJobs, image_paths, is_cancelled,
                   successfully_loaded_count, idx, pixmap, eventQueue,
                   listdir_result, decoded, emitted, delivered>>

\* self.signals.finished_all.emit(self.successfully_loaded_count)
AllEvent(j) == Event(j, "finished_all", NoPath, successfully_loaded_count[j])

run_emit_all(j) ==
    /\ pc[j] = "emit_all"
    /\ Emit(AllEvent(j))
    /\ pc' = [pc EXCEPT ![j] = "exit"]
    /\ UNCHANGED <<corrupt, ctlVars, poolVars, nJobs, image_paths, is_cancelled,
                   successfully_loaded_count, idx, pixmap, listdir_result, decoded, delivered>>

\* run() returns: the pool thread is free and takes the next queued runnable.
run_return(j) ==
    /\ pc[j] = "exit"
    /\ IF poolQueue = << >>
       THEN /\ pc' = [pc EXCEPT ![j] = "done"]
            /\ poolQueue' = poolQueue
       ELSE /\ pc' = [pc EXCEPT ![j] = "done", ![Head(poolQueue)] = "loop"]
            /\ poolQueue' = Tail(poolQueue)
    /\ UNCHANGED <<corrupt, ctlVars, maxThreadCount, nJobs, image_paths, is_cancelled,
                   successfully_loaded_count, idx, pixmap, eventQueue,
                   listdir_result, decoded, emitted, delivered>>

-----------------------------------------------------------------------------
\* The controller: WallpaperApp, one action per slot.

\* clear_image_container_content leaves an empty layout, count 0, no current
\* row and image_files_paths = []; each branch below starts from there.

\* The loader whose image_paths is the very list object image_files_paths is
\* bound to (line 333 hands the list over, it is not copied).  The controller
\* binds image_files_paths to a new list at lines 284 and 311 and hands a list
\* to a loader only when it is not empty, so the list is shared exactly when
\* it is not empty, with the loader constructed last.
SharedListOwner == IF image_files_paths # << >> THEN nJobs ELSE None

\* mutant: the list is emptied in place (self.image_files_paths.clear())
ClearInPlace(lists) ==
    IF SharedListOwner # None
    THEN [lists EXCEPT ![SharedListOwner] = << >>]
    ELSE lists

\* The loaders' lists after "self.image_files_paths = []" (line 284): the
\* attribute is bound to a new list, the old list object is not written.
ClearPathsList(lists) == lists

\* self.thread_pool.start(loader): runs at once on a free thread, else queued.
StartsAtOnce == activeThreadCount < maxThreadCount

\* mutant: the safeguard is left out
NoSafeguardCancel(flags) == flags

\* The flags once load_images_from_directory has reached line 330:
\* "if self.current_thumbnail_loader: self.current_thumbnail_loader.cancel()".
SafeguardCancel(flags) == Cancel(flags, current_thumbnail_loader)

\* mutant: OSError is swallowed and the scan goes on with an empty listing
ScanBranchSwallowsError(d, res) ==
    IF d = NoDir THEN "initial"
    ELSE IF ScanFilter(d, res.files) = << >> THEN "nofiles"
    ELSE "start"

\* mutant: the early return on an empty scan result is left out
ScanBranchStartsEmpty(d, res) ==
    IF d = NoDir THEN "initial"
    ELSE IF ~res.ok THEN "error"
    ELSE "start"

\* The path load_images_from_directory takes: the early returns of lines 288,
\* 301 and 319, or on to the start of a loader.
ScanBranch(d, res) ==
    IF d = NoDir THEN "initial"
    ELSE IF ~res.ok THEN "error"
    ELSE IF ScanFilter(d, res.files) = << >> THEN "nofiles"
    ELSE "start"

\* load_images_from_directory, entered with current_directory = d, the flags
\* as the caller left them, and res the outcome of os.listdir.
load_images_from_directory(d, flags, res) ==
    /\ nScans < MaxScans
    /\ nScans' = nScans + 1
    /\ listdir_result' = IF d = NoDir THEN listdir_result
                         ELSE IF res.ok THEN "ok" ELSE "error"
    /\ current_directory' = d
    /\ images_added_to_grid_count' = 0
    /\ current_row_layout' = None
    /\ closed' = closed
    /\ UNCHANGED <<corrupt, maxThreadCount, successfully_loaded_count, idx,
                   pixmap, eventQueue, decoded, emitted, delivered>>
    /\ IF ScanBranch(d, res) = "initial"
       THEN \* show_initial_message
            /\ image_container_layout' = << Label("initial") >>
            /\ image_files_paths' = << >>
            /\ is_cancelled' = flags
            /\ image_paths' = ClearPathsList(image_paths)
            /\ UNCHANGED <<current_thumbnail_loader, nJobs, pc, poolQueue>>
       ELSE IF ScanBranch(d, res) = "error"
       THEN \* except OSError
            /\ image_container_layout' = << Label("error") >>
            /\ image_files_paths' = << >>
            /\ is_cancelled' = flags
            /\ image_paths' = ClearPathsList(image_paths)
            /\ UNCHANGED <<current_thumbnail_loader, nJobs, pc, poolQueue>>
       ELSE IF ScanBranch(d, res) = "nofiles"
       THEN \* if not self.image_files_paths
            /\ image_container_layout' = << Label("nofiles") >>
            /\ image_files_paths' = << >>
            /\ is_cancelled' = flags
            /\ image_paths' = ClearPathsList(image_paths)
            /\ UNCHANGED <<current_thumbnail_loader, nJobs, pc, poolQueue>>
       ELSE \* a new ThumbnailLoader over the scanned list
            /\ nJobs < MaxJobs
            /\ image_container_layout' = << >>
            /\ image_files_paths' = ScanFilter(d, res.files)
            /\ is_cancelled' = SafeguardCancel(flags)
            /\ nJobs' = nJobs + 1
            /\ current_thumbnail_loader' = nJobs + 1
            /\ image_paths' =
                  [ClearPathsList(image_paths) EXCEPT
                      ![nJobs + 1] = ScanFilter(d, res.files)]
            /\ IF StartsAtOnce
               THEN /\ pc' = [pc EXCEPT ![nJobs + 1] = "loop"]
                    /\ poolQueue' = poolQueue
               ELSE /\ pc' = [pc EXCEPT ![nJobs + 1] = "queued"]
                    /\ poolQueue' = Append(poolQueue, nJobs + 1)

\* "if self.current_thumbnail_loader and self.thread_pool.activeThreadCount()
\*  > 0: self.current_thumbnail_loader.cancel()"
CancelPrevious ==
    IF current_thumbnail_loader # None /\ activeThreadCount > 0
    THEN Cancel(is_cancelled, current_thumbnail_loader)
    ELSE is_cancelled

\* select_directory, the dialog returning directory ("" when dismissed).
select_directory(directory) ==
    /\ ~closed
    /\ IF directory = NoDir
       THEN UNCHANGED vars
       ELSE \E res \in OsListDir(directory) :
               load_images_from_directory(directory, CancelPrevious, res)

refresh_images ==
    /\ ~closed
    /\ IF current_directory # NoDir
       THEN \E res \in OsListDir(current_directory) :
               load_images_from_directory(current_directory, CancelPrevious, res)
       ELSE UNCHANGED vars

\* closeEvent: cancel the current loader, wait up to a second for the pool,
\* and let the window close whether or not the workers have returned.
closeEvent ==
    /\ ~closed
    /\ closed' = TRUE
    /\ is_cancelled' = Cancel(is_cancelled, current_thumbnail_loader)
    /\ UNCHANGED <<corrupt, current_directory, image_files_paths,
                   images_added_to_grid_count, current_row_layout,
                   image_container_layout, current_thumbnail_loader, poolVars,
                   nScans,
                   nJobs, image_paths, successfully_loaded_count, pc, idx,
                   pixmap, eventQueue, listdir_result, decoded, emitted, delivered>>

\* The event loop hands the oldest queued emission to its slot.
Dispatch(kind) ==
    /\ eventQueue # << >>
    /\ Head(eventQueue).kind = kind
    /\ eventQueue' = Tail(eventQueue)
    /\ delivered' = Append(delivered, Head(eventQueue))
    /\ UNCHANGED <<corrupt, current_directory, closed, nScans, poolVars, nJobs,
                   image_paths, is_cancelled, successfully_loaded_count, pc, idx, pixmap,
                   listdir_result, decoded, emitted>>

\* mutant: a row is closed one card late
StartsNewRowLate == images_added_to_grid_count % (IMAGES_PER_ROW + 1) = 0

\* add_thumbnail_to_grid(image_path, thumbnail_pixmap)
StartsNewRow == images_added_to_grid_count % IMAGES_PER_ROW = 0

add_thumbnail_to_grid ==
    /\ Dispatch("finished_one")
    /\ LET layout == IF StartsNewRow
                     THEN Append(image_container_layout, NewRow)
                     ELSE image_container_layout
           row == IF StartsNewRow THEN Len(layout) ELSE current_row_layout
       IN  /\ image_container_layout' =
                 [layout EXCEPT ![row].cards = Append(@, Head(eventQueue).path)]
           /\ current_row_layout' = row
    /\ images_added_to_grid_count' = images_added_to_grid_count + 1
    /\ UNCHANGED <<image_files_paths, current_thumbnail_loader>>

\* handle_thumbnail_error(image_path, error_message): a status message only.
handle_thumbnail_error ==
    /\ Dispatch("error_loading_one")
    /\ UNCHANGED <<image_files_paths, images_added_to_grid_count,
                   current_row_layout, image_container_layout,
                   current_thumbnail_loader>>

\* self.current_thumbnail_loader = None
LoaderAfterAll == None

\* handle_all_thumbnails_loaded(count_loaded)
handle_all_thumbnails_loaded ==
    /\ Dispatch("finished_all")
    /\ LET stretched ==
              IF /\ current_row_layout # None
                 /\ images_added_to_grid_count % IMAGES_PER_ROW # 0
              THEN [image_container_layout EXCEPT
                        ![current_row_layout].stretch = @ + 1]
              ELSE image_container_layout
       IN  image_container_layout' =
              IF Head(eventQueue).count = 0 /\ image_files_paths = << >>
              THEN Append(stretched, Label("noloaded"))
              ELSE stretched
    /\ current_thumbnail_loader' = LoaderAfterAll
    /\ UNCHANGED <<image_files_paths, images_added_to_grid_count,
                   current_row_layout>>

-----------------------------------------------------------------------------
Next ==
    \/ \E d \in Dirs \cup {NoDir} : select_directory(d)
    \/ refresh_images
    \/ closeEvent
    \/ add_thumbnail_to_grid
    \/ handle_thumbnail_error
    \/ handle_all_thumbnails_loaded
    \/ \E j \in Jobs : run_loop(j)
    \/ \E j \in Jobs : run_load(j)
    \/ \E j \in Jobs : run_recheck(j)
    \/ \E j \in Jobs : run_emit(j)
    \/ \E j \in Jobs : run_final(j)
    \/ \E j \in Jobs : run_emit_all(j)
    \/ \E j \in Jobs : run_return(j)

Spec == Init /\ [][Next]_vars

\* Scheduling.  A pool thread that has a runnable keeps executing it (each
\* decode returns), and the UI thread's event loop keeps dispatching queued
\* emissions for as long as the window is open; once closeEvent has run the
\* application leaves the event loop and nothing more is owed.
WorkerStep(j) ==
    \/ run_loop(j) \/ run_load(j) \/ run_recheck(j) \/ run_emit(j)
    \/ run_final(j) \/ run_emit_all(j) \/ run_return(j)
EventLoopStep ==
    /\ ~closed
    /\ (add_thumbnail_to_grid \/ handle_thumbnail_error
          \/ handle_all_thumbnails_loaded)
LiveNext ==
    \/ \E d \in Dirs \cup {NoDir} : select_directory(d) /\ nScans' <= LiveScans
    \/ refresh_images /\ nScans' <= LiveScans
    \/ closeEvent
    \/ add_thumbnail_to_grid
    \/ handle_thumbnail_error
    \/ handle_all_thumbnails_loaded
    \/ \E j \in Jobs : WorkerStep(j)
LiveSpec ==
    /\ Init /\ [][LiveNext]_vars
    /\ \A j \in Jobs : WF_vars(WorkerStep(j))
    /\ WF_vars(EventLoopStep)

\* The grid filled from a directory of more than IMAGES_PER_ROW images: d4,
\* with one corrupt file among its four, so that the cards of two jobs over d4
\* fill one row and begin the next.
GridScans == 2      \* directory scans in one run of SpecGrid
GridDirs == {"d4"}
GridCorrupt == { PathJoin("d4", <<"h",".","b","m","p">>) }
InitGrid == corrupt = GridCorrupt /\ InitProgram
NextGrid ==
    \/ \E d \in GridDirs \cup {NoDir} :
          select_directory(d) /\ nScans' <= GridScans
    \/ refresh_images /\ nScans' <= GridScans
    \/ closeEvent
    \/ add_thumbnail_to_grid
    \/ handle_thumbnail_error
    \/ handle_all_thumbnails_loaded
    \/ \E j \in Jobs : run_loop(j)
    \/ \E j \in Jobs : run_load(j)
    \/ \E j \in Jobs : run_recheck(j)
    \/ \E j \in Jobs : run_emit(j)
    \/ \E j \in Jobs : run_final(j)
    \/ \E j \in Jobs : run_emit_all(j)
    \/ \E j \in Jobs : run_return(j)
SpecGrid == InitGrid /\ [][NextGrid]_vars

\* One batch job run on its own, over every choice of corrupt files.
InitBatch == corrupt \in SUBSET AllCandidates /\ InitProgram
NextBatch ==
    \/ \E d \in Dirs \cup {NoDir} : select_directory(d) /\ nScans' <= 1
    \/ refresh_images /\ nScans' <= 1
    \/ closeEvent
    \/ add_thumbnail_to_grid
    \/ handle_thumbnail_error
    \/ handle_all_thumbnails_loaded
    \/ \E j \in Jobs : run_loop(j)
    \/ \E j \in Jobs : run_load(j)
    \/ \E j \in Jobs : run_recheck(j)
    \/ \E j \in Jobs : run_emit(j)
    \/ \E j \in Jobs : run_final(j)
    \/ \E j \in Jobs : run_emit_all(j)
    \/ \E j \in Jobs : run_return(j)
SpecBatch == InitBatch /\ [][NextBatch]_vars

-----------------------------------------------------------------------------
\* Vocabulary of the properties.

ItemKinds == {"finished_one", "error_loading_one"}

\* The events of job j in a log, in log order.
EventsOf(log, j) == SelectSeq(log, LAMBDA e : e.job = j)
ItemsOf(log, j) == SelectSeq(log, LAMBDA e : e.job = j /\ e.kind \in ItemKinds)
SuccessesOf(log, j) ==
    SelectSeq(log, LAMBDA e : e.job = j /\ e.kind = "finished_one")
CompletionsOf(log, j) ==
    SelectSeq(log, LAMBDA e : e.job = j /\ e.kind = "finished_all")

Started(j) == pc[j] # "none"

\* The worker of job j is inside run() with its Completion not yet emitted.
Unfinished(j) == Running(j) /\ CompletionsOf(emitted, j) = << >>

-----------------------------------------------------------------------------
\* C1: once a job's cancellation flag is set, its worker emits no further
\* per-item event and no Completion: from a state where the flag of job j is
\* set, no step adds an event of j to the emissions.
C1_NoEmissionAfterCancel ==
    [][\A j \in Jobs :
          is_cancelled[j] => EventsOf(emitted', j) = EventsOf(emitted, j)]_vars

\* C2 as stated: at most one worker is executing run() in every state.
C2_AtMostOneWorkerRunning == Cardinality({j \in Jobs : Running(j)}) <= 1

\* C2 as amended: the previous worker is cancelled, not joined.  Whenever a
\* step starts a new job while the controller holds a loader, that loader's
\* flag is set by the end of the step, whether or not its worker has returned.
C2_PreviousCancelledBeforeStart ==
    [][(nJobs' = nJobs + 1 /\ current_thumbnail_loader # None)
          => is_cancelled'[current_thumbnail_loader]]_vars

\* C2's case: a second job has been started while the first job's worker,
\* cancelled, is still inside run().
C2_Witness ==
    /\ nJobs = 2
    /\ Running(1) /\ is_cancelled[1]
    /\ Running(2)

\* C3: a scan that starts a job, or closeEvent, run while an earlier job's
\* worker is still inside run(), leaves that job's flag set; so at most one
\* job with an unset flag has a running worker.  Stated for the workers that
\* still have their Completion ahead of them, which is the least the claim
\* says.
C3_CancelledBeforeStartOrShutdown ==
    /\ [][(nJobs' = nJobs + 1 \/ (closed' /\ ~closed))
            => \A j \in 1..nJobs : Unfinished(j) => is_cancelled'[j]]_vars
    /\ [](Cardinality({j \in Jobs : Unfinished(j) /\ ~is_cancelled[j]}) <= 1)

\* C4: for every job, the per-item events delivered so far are for the first
\* paths of its list, in list order, and a delivered Completion is the last
\* event delivered for the job.
C4_DeliveredInInputOrder ==
    \A j \in Jobs :
        LET all == EventsOf(delivered, j)
            items == ItemsOf(delivered, j)
        IN  /\ Len(items) <= Len(image_paths[j])
            /\ \A i \in DOMAIN items : items[i].path = image_paths[j][i]
            /\ \A i \in DOMAIN all :
                  all[i].kind = "finished_all" => i = Len(all)

\* C4's case: a job's two per-item events and its Completion have all been
\* delivered, after a delivery for another job.
C4_Witness ==
    \E j \in Jobs :
        /\ Len(ItemsOf(delivered, j)) = 2
        /\ Len(CompletionsOf(delivered, j)) = 1
        /\ \E k \in Jobs \ {j} : EventsOf(delivered, k) # << >>

\* C5: a job whose worker has returned with the flag unset has emitted exactly
\* one per-item event per path, in order: a Failure for a path whose decode
\* fails, a Success for every other path.
C5_OneEventPerPath ==
    \A j \in Jobs :
        (pc[j] = "done" /\ ~is_cancelled[j]) =>
            LET items == ItemsOf(emitted, j)
            IN  /\ Len(items) = Len(image_paths[j])
                /\ \A i \in DOMAIN items :
                      /\ items[i].path = image_paths[j][i]
                      /\ items[i].kind =
                            IF image_paths[j][i] \in corrupt
                            THEN "error_loading_one" ELSE "finished_one"

\* C5's case: an uncancelled job has returned whose first path failed to
\* decode and whose second path decoded.
C5_Witness ==
    \E j \in Jobs :
        /\ pc[j] = "done" /\ ~is_cancelled[j]
        /\ Len(image_paths[j]) = 2
        /\ image_paths[j][1] \in corrupt
        /\ image_paths[j][2] \notin corrupt

\* C6: a job emits at most one Completion, and the count it carries is the
\* number of Success events the job has emitted.
C6_CompletionCountsSuccesses ==
    \A j \in Jobs :
        /\ Len(CompletionsOf(emitted, j)) <= 1
        /\ \A i \in DOMAIN CompletionsOf(emitted, j) :
              CompletionsOf(emitted, j)[i].count = Len(SuccessesOf(emitted, j))

\* C6's case: a Completion has been emitted by a job that had one success and
\* one failure.
C6_Witness ==
    \E j \in Jobs :
        /\ Len(CompletionsOf(emitted, j)) = 1
        /\ Len(SuccessesOf(emitted, j)) = 1
        /\ Len(ItemsOf(emitted, j)) = 2

\* C7: once an event of a newer job has been delivered, no event of an older
\* job is delivered: in the delivery log no event of a job follows an event of
\* a job started after it.
C7_OlderJobSilentAfterNewer ==
    \A i, k \in DOMAIN delivered :
        i < k => delivered[i].job <= delivered[k].job

\* C9: a scan whose os.listdir raises OSError leaves image_files_paths empty,
\* creates and submits no loader, and shows the error as a label.
C9_ScanErrorStartsNoJob ==
    [][(nScans' = nScans + 1 /\ listdir_result' = "error") =>
          /\ image_files_paths' = << >>
          /\ image_container_layout' = << Label("error") >>
          /\ nJobs' = nJobs
          /\ current_thumbnail_loader' = current_thumbnail_loader
          /\ image_paths' = image_paths
          /\ pc' = pc
          /\ poolQueue' = poolQueue]_vars

\* C9's case: a scan has failed after an earlier scan had started a job.
C9_Witness ==
    /\ listdir_result = "error"
    /\ image_container_layout = << Label("error") >>
    /\ image_files_paths = << >>
    /\ nJobs = 1 /\ nScans = 2

\* The allow-list and the test of C10, written out.
C10_Extensions ==
    { <<".","j","p","g">>, <<".","j","p","e","g">>, <<".","p","n","g">>,
      <<".","b","m","p">> }

C10_Qualifies(e) ==
    /\ e.isfile
    /\ \E x \in C10_Extensions :
          /\ Len(e.name) >= Len(x)
          /\ \A i \in 1..Len(x) :
                LowerChar(e.name[Len(e.name) - Len(x) + i]) = x[i]

\* C10: after a scan that could list the directory, image_files_paths holds
\* exactly the entries of current_directory that are regular files with an
\* allowed extension (case-insensitive), in listing order: its k-th path is
\* the k-th such entry.
C10_ScanYieldsImageFiles ==
    listdir_result = "ok" =>
        LET L == FileSystem(current_directory)
            Q == {i \in DOMAIN L : C10_Qualifies(L[i])}
        IN  /\ Len(image_files_paths) = Cardinality(Q)
            /\ \A k \in DOMAIN image_files_paths :
                  \E i \in Q :
                     /\ Cardinality({q \in Q : q <= i}) = k
                     /\ image_files_paths[k] =
                           [dir |-> current_directory, name |-> L[i].name]

\* C10's case: the scan of d1 kept a.JPG and b.png, in that order, and left
\* out the subdirectory s.png and the file n.txt.
C10_Witness ==
    /\ listdir_result = "ok"
    /\ current_directory = "d1"
    /\ image_files_paths =
          << [dir |-> "d1", name |-> <<"a",".","J","P","G">>],
             [dir |-> "d1", name |-> <<"b",".","p","n","g">>] >>

\* C8: every worker's run() returns; a started job whose flag is never set
\* emits one Completion, which the controller handles; no job emits two.
C8_EveryJobEnds ==
    /\ \A j \in Jobs : Started(j) ~> (pc[j] = "done")
    /\ \A j \in Jobs :
          Started(j) ~> (is_cancelled[j] \/ CompletionsOf(delivered, j) # << >>)
    /\ [](\A j \in Jobs : Len(CompletionsOf(emitted, j)) <= 1)

-----------------------------------------------------------------------------
\* The cards of the grid, row by row from the top, left to right.
RECURSIVE CardsOf(_)
CardsOf(layout) ==
    IF layout = << >> THEN << >>
    ELSE Head(layout).cards \o CardsOf(Tail(layout))

GridCards == CardsOf(image_container_layout)

\* C11: one card is appended per per-item event, Success or Failure: once the
\* Completion of an uncancelled job has been handled, with no scan since the
\* one that started the job, the grid holds one card per path of the job, in
\* path order, and images_added_to_grid_count is the length of the list.
C11_OneCardPerEvent ==
    (/\ nScans = 1 /\ nJobs = 1
     /\ ~is_cancelled[1]
     /\ CompletionsOf(delivered, 1) # << >>)
        => /\ images_added_to_grid_count = Len(image_paths[1])
           /\ GridCards = image_paths[1]

\* C12: events of a job that was cancelled and whose grid was cleared change
\* nothing on the display: every card of the grid is for a path of the current
\* candidate list, and the grid holds no card under a "No images found" or a
\* directory-error label.
C12_StaleEventsDrainSilently ==
    /\ \A i \in DOMAIN GridCards :
          \E k \in DOMAIN image_files_paths : GridCards[i] = image_files_paths[k]
    /\ (\E w \in DOMAIN image_container_layout :
           image_container_layout[w] \in {Label("nofiles"), Label("error")})
          => GridCards = << >>

\* C13: the handle on job b is given up only by a step that starts a newer
\* job or by the handling of b's own Completion; in particular the Completion
\* of an earlier job never sets it to None.
C13_HandleDroppedOnlyByOwnCompletion ==
    [][\A b \in Jobs :
          (current_thumbnail_loader = b /\ current_thumbnail_loader' # b) =>
              \/ /\ nJobs' = nJobs + 1
                 /\ current_thumbnail_loader' = nJobs'
              \/ /\ eventQueue # << >>
                 /\ delivered' = Append(delivered, Head(eventQueue))
                 /\ Head(eventQueue).kind = "finished_all"
                 /\ Head(eventQueue).job = b]_vars

\* The decodes of job j that began with the flag already set.
DecodesAfterCancel(j) == SelectSeq(decoded[j], LAMBDA d : d.cancelled)

\* C14: the tail after a cancel is bounded.  A worker begins at most one
\* decode with its flag set, that decode is the last it makes (no later path
\* is processed), and a worker whose flag is set returns from run().
C14_BoundedTailAfterCancel ==
    /\ [](\A j \in Jobs :
            /\ Len(DecodesAfterCancel(j)) <= 1
            /\ \A i \in DOMAIN decoded[j] :
                  decoded[j][i].cancelled => i = Len(decoded[j]))
    /\ \A j \in Jobs : is_cancelled[j] ~> (pc[j] = "done")

\* C14's case: a worker was cancelled between the check before an item and the
\* decode of that item, with a later path still in its list, and has returned.
C14_Witness ==
    \E j \in Jobs :
        /\ is_cancelled[j] /\ pc[j] = "done"
        /\ Len(DecodesAfterCancel(j)) = 1
        /\ Len(decoded[j]) < Len(image_paths[j])

\* C15: from the construction of a loader until its worker returns, no step
\* changes the loader's image_paths: not the clearing of the grid, not a scan
\* that builds image_files_paths anew, not any other slot or worker step.
C15_ImagePathsImmutable ==
    [][\A j \in Jobs :
          (Started(j) /\ pc[j] # "done") => image_paths'[j] = image_paths[j]]_vars

\* C15's case: the worker of job 1 has not returned, its list is the scan of
\* d1, and since then the grid was cleared and image_files_paths rebuilt for
\* another scan.
C15_Witness ==
    /\ Started(1) /\ pc[1] # "done"
    /\ nScans >= 2
    /\ image_paths[1] = ScanFilter("d1", ListDir("d1"))
    /\ image_files_paths # image_paths[1]

\* C16: a loader is only ever constructed and submitted over a non-empty
\* list, and a scan that lists a directory holding no regular file with an
\* allowed extension starts nothing: image_files_paths is left empty, no loader
\* is constructed, the handle, the workers and the pool are as they were.
C16_JobsAreNonEmpty ==
    /\ [](\A j \in Jobs : Started(j) => Len(image_paths[j]) >= 1)
    /\ [][(/\ nScans' = nScans + 1
           /\ listdir_result' = "ok"
           /\ ~ \E i \in DOMAIN FileSystem(current_directory') :
                   C10_Qualifies(FileSystem(current_directory')[i]))
          => /\ image_files_paths' = << >>
             /\ nJobs' = nJobs
             /\ current_thumbnail_loader' = current_thumbnail_loader
             /\ pc' = pc
             /\ poolQueue' = poolQueue]_vars

\* C16's case: d3, which holds no image file, was listed and scanned after a
\* job had been started for another directory; the job count is still one.
C16_Witness ==
    /\ listdir_result = "ok"
    /\ current_directory = "d3"
    /\ image_files_paths = << >>
    /\ image_container_layout[1] = Label("nofiles")
    /\ nJobs = 1 /\ Len(image_paths[1]) = 2

\* The rows of the grid, top to bottom.
Rows == SelectSeq(image_container_layout, LAMBDA w : w.type = "row")

\* C17: in every state images_added_to_grid_count is the number of cards in
\* the grid, no row holds more than IMAGES_PER_ROW cards, and every row but
\* the last holds exactly IMAGES_PER_ROW.
C17_GridBookkeeping ==
    /\ images_added_to_grid_count = Len(GridCards)
    /\ \A r \in DOMAIN Rows :
          /\ Len(Rows[r].cards) <= IMAGES_PER_ROW
          /\ r < Len(Rows) => Len(Rows[r].cards) = IMAGES_PER_ROW

\* C17's case: after a second scan cleared the grid, cards of the cancelled
\* job and cards of the new job (each job has three images that decode) have
\* filled a first row and begun a second.
C17_Witness ==
    /\ nScans = 2 /\ nJobs = 2
    /\ Len(Rows) = 2
    /\ Len(Rows[1].cards) = IMAGES_PER_ROW
    /\ Len(Rows[2].cards) >= 1
    /\ images_added_to_grid_count = IMAGES_PER_ROW + Len(Rows[2].cards)

=============================================================================
